---- MODULE Spec2Model ----
(***************************************************************************)
(* ScholarInsights: venue-name normalisation, the venue rank cascade, the  *)
(* per-publication rank breakdown and the authorship tally.                *)
(*                                                                         *)
(* A Python str is a sequence of characters; a character is a one-element  *)
(* TLA+ string.  The en dash and the em dash are the atoms "ndash" and     *)
(* "mdash".  Python's None is the value None below.                        *)
(***************************************************************************)
EXTENDS Integers, Sequences, FiniteSets, TLC

VARIABLES file, VENUE_RANKS, phase, input, call

vars == <<file, VENUE_RANKS, phase, input, call>>

(***************************************************************************)
(* Characters and the str methods the code uses.                           *)
(***************************************************************************)
UpperSeq == <<"A","B","C","D","E","F","G","H","I","J","K","L","M",
              "N","O","P","Q","R","S","T","U","V","W","X","Y","Z">>

LowerSeq == <<"a","b","c","d","e","f","g","h","i","j","k","l","m",
              "n","o","p","q","r","s","t","u","v","w","x","y","z">>

Digits == {"0","1","2","3","4","5","6","7","8","9"}

Uppers == {UpperSeq[i] : i \in 1..Len(UpperSeq)}

Lowers == {LowerSeq[i] : i \in 1..Len(LowerSeq)}

Letters == Uppers \cup Lowers

\* the characters Python's \s and str.strip()/str.split() treat as whitespace
Whitespace == {" ", "\t"}

Dashes == {"-", "ndash", "mdash"}

None == <<"<None>">>

\* Python truthiness of an Optional[str]: None and "" are falsy
Falsy(v) == v = None \/ v = <<>>

LowerChar(c) ==
    IF c \in Uppers THEN LowerSeq[CHOOSE i \in 1..Len(UpperSeq) : UpperSeq[i] = c] ELSE c

UpperChar(c) ==
    IF c \in Lowers THEN UpperSeq[CHOOSE i \in 1..Len(LowerSeq) : LowerSeq[i] = c] ELSE c

\* str.lower()
Lower(s) == [i \in 1..Len(s) |-> LowerChar(s[i])]

\* str.upper()
Upper(s) == [i \in 1..Len(s) |-> UpperChar(s[i])]

\* re.sub(r'[<set>]', '', s)
RemoveChars(s, set) == SelectSeq(s, LAMBDA c : c \notin set)

\* re.sub(r'[^<set>]', '', s)
KeepChars(s, set) == SelectSeq(s, LAMBDA c : c \in set)

\* re.sub(r'[<set>]', r, s) for a one-character replacement r
ReplaceChars(s, set, r) == [i \in 1..Len(s) |-> IF s[i] \in set THEN r ELSE s[i]]

\* first index >= i of s that holds no whitespace (Len(s)+1 when there is none)
RECURSIVE SkipWs(_, _)
SkipWs(s, i) ==
    IF i > Len(s) THEN i
    ELSE IF s[i] \in Whitespace THEN SkipWs(s, i + 1) ELSE i

\* s[i..j] as a sequence (empty when i > j)
Slice(s, i, j) == IF i > j THEN <<>> ELSE SubSeq(s, i, j)

\* s.startswith(p, i-1)
MatchAt(s, i, p) == i + Len(p) - 1 <= Len(s) /\ Slice(s, i, i + Len(p) - 1) = p

\* Python's "a in b" on strings
IsSubstring(a, b) == \E i \in 1..(Len(b) + 1) : MatchAt(b, i, a)

\* str.strip()
RECURSIVE RStrip(_)
RStrip(s) ==
    IF s = <<>> THEN s
    ELSE IF s[Len(s)] \in Whitespace THEN RStrip(Slice(s, 1, Len(s) - 1)) ELSE s

LStrip(s) == Slice(s, SkipWs(s, 1), Len(s))

Strip(s) == LStrip(RStrip(s))

\* str.split(): the maximal runs of non-whitespace characters
RECURSIVE SplitFrom(_, _, _)
SplitFrom(s, i, cur) ==
    IF i > Len(s) THEN (IF cur = <<>> THEN <<>> ELSE <<cur>>)
    ELSE IF s[i] \in Whitespace
         THEN (IF cur = <<>> THEN <<>> ELSE <<cur>>) \o SplitFrom(s, i + 1, <<>>)
         ELSE SplitFrom(s, i + 1, Append(cur, s[i]))

Split(s) == SplitFrom(s, 1, <<>>)

AndWord == <<"a","n","d">>

SpacedAnd == <<" ","a","n","d"," ">>

\* re.sub(r'\s*&\s*', ' and ', s): leftmost, greedy, non-overlapping
RECURSIVE SubAmpersand(_, _)
SubAmpersand(s, i) ==
    IF i > Len(s) THEN <<>>
    ELSE LET j == SkipWs(s, i) IN
         IF j <= Len(s) /\ s[j] = "&"
         THEN SpacedAnd \o SubAmpersand(s, SkipWs(s, j + 1))
         ELSE <<s[i]>> \o SubAmpersand(s, i + 1)

\* re.sub(r'\s+and\s+', ' and ', s)
RECURSIVE SubAnd(_, _)
SubAnd(s, i) ==
    IF i > Len(s) THEN <<>>
    ELSE LET j == SkipWs(s, i) IN
         IF /\ j > i
            /\ MatchAt(s, j, AndWord)
            /\ j + 3 <= Len(s)
            /\ s[j + 3] \in Whitespace
         THEN SpacedAnd \o SubAnd(s, SkipWs(s, j + 3))
         ELSE <<s[i]>> \o SubAnd(s, i + 1)

\* re.sub(r'\s+', ' ', s)
RECURSIVE CollapseWs(_, _)
CollapseWs(s, i) ==
    IF i > Len(s) THEN <<>>
    ELSE IF s[i] \in Whitespace THEN <<" ">> \o CollapseWs(s, SkipWs(s, i))
         ELSE <<s[i]>> \o CollapseWs(s, i + 1)

(***************************************************************************)
(* ranking_utils.normalize_venue_name                                      *)
(***************************************************************************)
\* a slip: the dashes are turned into spaces after the whitespace is collapsed
normalize_venue_name_late_dash(venue_name) ==
    IF Falsy(venue_name) THEN <<>>
    ELSE LET l  == Lower(venue_name)
             a1 == SubAmpersand(l, 1)
             a2 == SubAnd(a1, 1)
             p1 == RemoveChars(a2, {"(", ")"})
             p2 == RemoveChars(p1, {",", ";", ":"})
             w  == CollapseWs(p2, 1)
             d  == ReplaceChars(w, Dashes, " ")
         IN  Strip(d)

normalize_venue_name(venue_name) ==
    IF Falsy(venue_name) THEN <<>>
    ELSE LET l  == Lower(venue_name)
             a1 == SubAmpersand(l, 1)
             a2 == SubAnd(a1, 1)
             p1 == RemoveChars(a2, {"(", ")"})
             p2 == RemoveChars(p1, {",", ";", ":"})
             d  == ReplaceChars(p2, Dashes, " ")
             w  == CollapseWs(d, 1)
         IN  Strip(w)

(***************************************************************************)
(* The ranking database: a JSON object, kept by json.load as a dict in the *)
(* order of the file.  It is a sequence of entries with distinct keys; a   *)
(* value is a bare rank label or an object {rank, impact_factor, sjr}.     *)
(* A member the object lacks is Absent; dict.get of it gives NoneMetric.   *)
(***************************************************************************)
Absent == "<absent>"

NoneMetric == "None"

Bare(label) == [kind |-> "str", rank |-> label, impact_factor |-> Absent, sjr |-> Absent]

Structured(rank, impact_factor, sjr) ==
    [kind |-> "dict", rank |-> rank, impact_factor |-> impact_factor, sjr |-> sjr]

\* isinstance(value, dict)
IsDict(value) == value.kind = "dict"

\* value.get(member): None when the member is missing
DictGet(member) == IF member = Absent THEN NoneMetric ELSE member

\* least i in 1..n with P(i), 0 when there is none: a for loop that returns at its first hit
FirstIdx(n, P(_)) ==
    IF \E i \in 1..n : P(i)
    THEN CHOOSE i \in 1..n : P(i) /\ \A j \in 1..(i - 1) : ~P(j)
    ELSE 0

(***************************************************************************)
(* ranking_utils.load_rankings: the three except branches                  *)
(***************************************************************************)
\* a slip: the catch-all "except Exception" branch is missing
load_rankings_no_catch_all(f) ==
    CASE f.kind = "ok"         -> [raised |-> FALSE, value |-> f.content]
      [] f.kind = "absent"     -> [raised |-> FALSE, value |-> <<>>]
      [] f.kind = "malformed"  -> [raised |-> FALSE, value |-> <<>>]
      [] f.kind = "unreadable" -> [raised |-> TRUE,  value |-> <<>>]

load_rankings(f) ==
    CASE f.kind = "ok"         -> [raised |-> FALSE, value |-> f.content]
      [] f.kind = "absent"     -> [raised |-> FALSE, value |-> <<>>]
      [] f.kind = "malformed"  -> [raised |-> FALSE, value |-> <<>>]
      [] f.kind = "unreadable" -> [raised |-> FALSE, value |-> <<>>]

(***************************************************************************)
(* ranking_utils.match_acronym_to_full_name and _extract_rank              *)
(***************************************************************************)
AcronymStopWords ==
    { <<"t","h","e">>, <<"o","f">>, <<"o","n">>, <<"a","n","d">>, <<"f","o","r">>,
      <<"i","n">>, <<"a">>, <<"a","n">>, <<"t","o">> }

RECURSIVE FirstLetters(_, _)
FirstLetters(words, i) ==
    IF i > Len(words) THEN <<>>
    ELSE LET word_clean == KeepChars(words[i], Letters) IN
         (IF Len(word_clean) > 0 /\ Lower(word_clean) \notin AcronymStopWords
          THEN <<UpperChar(word_clean[1])>> ELSE <<>>) \o FirstLetters(words, i + 1)

match_acronym_to_full_name(acronym, full_name) ==
    Upper(acronym) = FirstLetters(Split(full_name), 1)

extract_rank(value) ==
    IF IsDict(value)
    THEN (IF value.rank = Absent THEN "Unranked" ELSE value.rank)
    ELSE value.rank

(***************************************************************************)
(* ranking_utils.get_venue_rank, one operator per stage of the cascade.    *)
(* A stage gives the index of the entry it returns, 0 when it has no hit.  *)
(***************************************************************************)
MinFuzzyLen == 5

MinAcronymLen == 2

MaxAcronymLen == 6

\* "if name_normalized in VENUE_RANKS": a dict lookup, whatever the key's position
DirectStage(db, venue_name) ==
    LET name_normalized == normalize_venue_name(venue_name) IN
    FirstIdx(Len(db), LAMBDA i : db[i].key = name_normalized)

ExactStage(db, venue_name) ==
    LET name_normalized == normalize_venue_name(venue_name) IN
    FirstIdx(Len(db), LAMBDA i : normalize_venue_name(db[i].key) = name_normalized)

AcronymShaped(venue_name) ==
    LET name_clean == KeepChars(Upper(venue_name), Letters \cup Digits) IN
    /\ Len(name_clean) <= MaxAcronymLen
    /\ Len(name_clean) >= MinAcronymLen
    /\ ~IsSubstring(<<" ">>, venue_name)

\* a slip: a key is taken for a full name only if it is long and holds a space
FullNameKey_long_and_spaced(key) ==
    LET key_clean == KeepChars(Upper(key), Letters \cup Digits) IN
    Len(key_clean) > MaxAcronymLen /\ IsSubstring(<<" ">>, key)

FullNameKey(key) ==
    LET key_clean == KeepChars(Upper(key), Letters \cup Digits) IN
    Len(key_clean) > MaxAcronymLen \/ IsSubstring(<<" ">>, key)

AcronymStage(db, venue_name) ==
    LET name_clean == KeepChars(Upper(venue_name), Letters \cup Digits) IN
    IF AcronymShaped(venue_name)
    THEN FirstIdx(Len(db), LAMBDA i :
             FullNameKey(db[i].key) /\ match_acronym_to_full_name(name_clean, db[i].key))
    ELSE 0

FuzzyMatch(key, name_normalized) ==
    LET key_normalized == normalize_venue_name(key) IN
    /\ Len(key_normalized) >= MinFuzzyLen
    /\ Len(name_normalized) >= MinFuzzyLen
    /\ \/ IsSubstring(key_normalized, name_normalized)
       \/ IsSubstring(name_normalized, key_normalized)

FuzzyStage(db, venue_name) ==
    LET name_normalized == normalize_venue_name(venue_name) IN
    FirstIdx(Len(db), LAMBDA i : FuzzyMatch(db[i].key, name_normalized))

RawStage(db, venue_name) ==
    LET name_lower == Strip(Lower(venue_name)) IN
    FirstIdx(Len(db), LAMBDA i :
        IsSubstring(db[i].key, name_lower) \/ IsSubstring(name_lower, db[i].key))

\* the keys the acronym loop hands to match_acronym_to_full_name when the loop returns
\* at entry acronym (0: it runs to the end)
ComparedUpTo(db, acronym) ==
    {i \in 1..(IF acronym = 0 THEN Len(db) ELSE acronym) : FullNameKey(db[i].key)}

\* the same for a call of get_venue_rank: none when the call returns before the
\* acronym stage or the venue is not acronym-shaped
AcronymCompared(db, venue_name) ==
    IF /\ ~Falsy(venue_name)
       /\ normalize_venue_name(venue_name) # <<>>
       /\ DirectStage(db, venue_name) = 0
       /\ ExactStage(db, venue_name) = 0
       /\ AcronymShaped(venue_name)
    THEN ComparedUpTo(db, AcronymStage(db, venue_name))
    ELSE {}

Hit(stage, idx) == [stage |-> stage, idx |-> idx]

\* a slip of the order: fuzzy containment is tried before the exact-match stages
FirstHit_fuzzy_first(direct, exact, acronym, fuzzy, raw) ==
    IF fuzzy # 0 THEN Hit("fuzzy", fuzzy)
    ELSE IF direct # 0 THEN Hit("direct", direct)
    ELSE IF exact # 0 THEN Hit("exact", exact)
    ELSE IF acronym # 0 THEN Hit("acronym", acronym)
    ELSE IF raw # 0 THEN Hit("raw", raw)
    ELSE Hit("none", 0)

\* the order of the stages: each is tried only if those before it have no hit
FirstHit(direct, exact, acronym, fuzzy, raw) ==
    IF direct # 0 THEN Hit("direct", direct)
    ELSE IF exact # 0 THEN Hit("exact", exact)
    ELSE IF acronym # 0 THEN Hit("acronym", acronym)
    ELSE IF fuzzy # 0 THEN Hit("fuzzy", fuzzy)
    ELSE IF raw # 0 THEN Hit("raw", raw)
    ELSE Hit("none", 0)

\* the path get_venue_rank takes: the stage that returns and the entry it returns
Resolve(db, venue_name) ==
    IF Falsy(venue_name) THEN Hit("absent", 0)
    ELSE IF normalize_venue_name(venue_name) = <<>> THEN Hit("empty", 0)
    ELSE FirstHit(DirectStage(db, venue_name), ExactStage(db, venue_name),
                  AcronymStage(db, venue_name), FuzzyStage(db, venue_name),
                  RawStage(db, venue_name))

\* what get_venue_rank returns on the path r
RankOfHit(db, r) ==
    IF r.stage \in {"absent", "empty"} THEN "Unknown"
    ELSE IF r.stage = "none" THEN "Unranked"
    ELSE extract_rank(db[r.idx].value)

get_venue_rank(db, venue_name) == RankOfHit(db, Resolve(db, venue_name))

(***************************************************************************)
(* ranking_utils.get_venue_metrics                                         *)
(***************************************************************************)
\* the first of the three searches of get_venue_metrics whose entry is an object; each
\* search stops at its first matching entry, object or not
FirstStructured(db, direct, exact, fuzzy) ==
    IF direct # 0 /\ IsDict(db[direct].value) THEN direct
    ELSE IF exact # 0 /\ IsDict(db[exact].value) THEN exact
    ELSE IF fuzzy # 0 /\ IsDict(db[fuzzy].value) THEN fuzzy
    ELSE 0

\* the entry whose impact_factor and sjr get_venue_metrics returns, 0 when it returns None
MetricsSource(db, venue_name) ==
    IF Falsy(venue_name) THEN 0
    ELSE IF normalize_venue_name(venue_name) = <<>> THEN 0
    ELSE FirstStructured(db, DirectStage(db, venue_name), ExactStage(db, venue_name),
                         FuzzyStage(db, venue_name))

MetricsTuple(db, rank, src) ==
    [rank          |-> rank,
     impact_factor |-> IF src = 0 THEN NoneMetric ELSE DictGet(db[src].value.impact_factor),
     sjr           |-> IF src = 0 THEN NoneMetric ELSE DictGet(db[src].value.sjr)]

get_venue_metrics(db, venue_name) ==
    MetricsTuple(db, get_venue_rank(db, venue_name), MetricsSource(db, venue_name))

(***************************************************************************)
(* Venue names and ranking files the resolver is run on.                   *)
(***************************************************************************)
K_rts_dash == <<"r","e","a","l","-","t","i","m","e"," ","s","y","s","t","e","m","s">>

K_rts == <<"r","e","a","l"," ","t","i","m","e"," ","s","y","s","t","e","m","s">>

K_rtss == <<"r","t","s","s">>

K_RTSS_full_dash ==
    <<"R","e","a","l","-","T","i","m","e"," ","S","y","s","t","e","m","s"," ",
      "S","y","m","p","o","s","i","u","m">>

K_dash == <<"-">>

V_RTSS == <<"R","T","S","S">>

V_rts == <<"r","t","s">>

V_RTS == <<"R","e","a","l"," ","T","i","m","e"," ","S","y","s","t","e","m","s">>

VenueKeys == {K_rts_dash, K_rts, K_rtss, K_RTSS_full_dash, K_dash}

VenueValues == {Bare("A*"), Bare("A"), Structured("B", "2.5", "1.2")}

RawVenues == {None, <<>>, K_dash, V_RTSS, V_rts, V_RTS}

MaxDb == 2

Entries == [key : VenueKeys, value : VenueValues]

\* the sequences of at most n entries with pairwise distinct keys
RECURSIVE Databases(_)
Databases(n) ==
    IF n = 0 THEN {<<>>}
    ELSE LET smaller == Databases(n - 1) IN
         smaller \cup
         {Append(db, e) : <<db, e>> \in
             {pr \in smaller \X Entries :
                 /\ Len(pr[1]) = n - 1
                 /\ \A i \in 1..Len(pr[1]) : pr[1][i].key # pr[2].key}}

RankingFiles ==
    {[kind |-> "ok", content |-> db] : db \in Databases(MaxDb)}
    \cup {[kind |-> k, content |-> <<>>] : k \in {"absent", "malformed", "unreadable"}}

NoCall == [op |-> "none", ret |-> <<>>, trace |-> <<>>]

(***************************************************************************)
(* The resolver: the module is imported (VENUE_RANKS = load_rankings()),   *)
(* then get_venue_rank and get_venue_metrics are called on the raw venue   *)
(* held in input.                                                          *)
(***************************************************************************)
Init ==
    /\ file \in RankingFiles
    /\ input \in RawVenues
    /\ VENUE_RANKS = <<>>
    /\ phase = "boot"
    /\ call = NoCall

LoadRankings ==
    /\ phase = "boot"
    /\ LET r == load_rankings(file) IN
       /\ VENUE_RANKS' = r.value
       /\ phase' = IF r.raised THEN "crashed" ELSE "ready"
    /\ UNCHANGED <<file, input, call>>

CallGetVenueRank ==
    /\ phase = "ready"
    /\ call' = [op    |-> "get_venue_rank",
                ret   |-> get_venue_rank(VENUE_RANKS, input),
                trace |-> Resolve(VENUE_RANKS, input)]
    /\ UNCHANGED <<file, VENUE_RANKS, phase, input>>

CallGetVenueMetrics ==
    /\ phase = "ready"
    /\ call' = [op    |-> "get_venue_metrics",
                ret   |-> get_venue_metrics(VENUE_RANKS, input),
                trace |-> [path |-> Resolve(VENUE_RANKS, input),
                           src  |-> MetricsSource(VENUE_RANKS, input)]]
    /\ UNCHANGED <<file, VENUE_RANKS, phase, input>>

Next == LoadRankings \/ CallGetVenueRank \/ CallGetVenueMetrics

Spec == Init /\ [][Next]_vars

(***************************************************************************)
(* Claims about the resolver, checked under Spec.                          *)
(***************************************************************************)
Entry(key, value) == [key |-> key, value |-> value]

RankReturned == call.op = "get_venue_rank"

MetricsReturned == call.op = "get_venue_metrics"

NormalizedInput == normalize_venue_name(input)

\* key i of the database matches the input exactly: equal normalized forms
ExactKey(i) == normalize_venue_name(VENUE_RANKS[i].key) = NormalizedInput

\* key i is a full name whose significant-word initials are the stripped, upper-cased input
AcronymKey(i) ==
    /\ FullNameKey(VENUE_RANKS[i].key)
    /\ match_acronym_to_full_name(KeepChars(Upper(input), Letters \cup Digits),
                                  VENUE_RANKS[i].key)

TierOf(i) == extract_rank(VENUE_RANKS[i].value)

\* C1: an acronym-shaped raw venue with no exact match resolves to the tier of the first
\* full-name key whose initials equal the upper-cased input; in particular with the
\* database {"Real-Time Systems Symposium": "A*"}, get_venue_rank("RTSS") returns A*.
C1_AcronymResolves ==
    RankReturned =>
      /\ ( /\ ~Falsy(input)
           /\ AcronymShaped(input)
           /\ \A i \in 1..Len(VENUE_RANKS) : ~ExactKey(i)
           /\ \E i \in 1..Len(VENUE_RANKS) : AcronymKey(i) )
         => call.ret = TierOf(FirstIdx(Len(VENUE_RANKS), AcronymKey))
      /\ ( VENUE_RANKS = <<Entry(K_RTSS_full_dash, Bare("A*"))>> /\ input = V_RTSS )
         => call.ret = "A*"

\* C3 as stated, for the raw venues that are present: for every database and every raw
\* venue, if some key's normalized form equals the normalized input, get_venue_rank
\* returns the tier of a key that matches exactly, through an exact-match stage.
C3_ExactWinsAnyVenue ==
    ( RankReturned /\ ~Falsy(input) /\ \E i \in 1..Len(VENUE_RANKS) : ExactKey(i) )
    => /\ call.trace.stage \in {"direct", "exact"}
       /\ ExactKey(call.trace.idx)
       /\ call.ret = TierOf(call.trace.idx)

\* C3 amended: the same for every raw venue whose normalized form is not empty (a venue
\* that normalizes to the empty string is Unknown whatever the keys are).
C3_ExactWins ==
    ( /\ RankReturned
      /\ NormalizedInput # <<>>
      /\ \E i \in 1..Len(VENUE_RANKS) : ExactKey(i) )
    => /\ call.trace.stage \in {"direct", "exact"}
       /\ ExactKey(call.trace.idx)
       /\ call.ret = TierOf(call.trace.idx)

C3_Witness ==
    /\ RankReturned
    /\ VENUE_RANKS = <<Entry(K_rts_dash, Bare("A")), Entry(K_rtss, Bare("A*"))>>
    /\ input = V_RTS
    /\ call.trace = Hit("exact", 1)
    /\ call.ret = "A"

\* C4: the exact-match stage returns what a walk of the database in iteration order
\* returns: the tier of the first key whose normalized form equals the normalized input.
C4_ExactIsFirstInOrder ==
    ( /\ RankReturned
      /\ NormalizedInput # <<>>
      /\ \E i \in 1..Len(VENUE_RANKS) : ExactKey(i) )
    => call.ret = TierOf(FirstIdx(Len(VENUE_RANKS), ExactKey))

\* C5: get_venue_metrics returns an impact factor or an SJR only when the entry that
\* supplied the returned tier is an object; when it is a bare label the result is
\* (tier, None, None).
C5_MetricsOnlyFromStructured ==
    MetricsReturned =>
      LET idx == call.trace.path.idx IN
      /\ ( call.ret.impact_factor # NoneMetric \/ call.ret.sjr # NoneMetric )
         => ( idx # 0 /\ IsDict(VENUE_RANKS[idx].value) )
      /\ ( idx # 0 /\ ~IsDict(VENUE_RANKS[idx].value) )
         => call.ret = [rank |-> TierOf(idx), impact_factor |-> NoneMetric,
                        sjr |-> NoneMetric]

\* C9: no load failure raises, a failed load leaves an empty database, and with an empty
\* database get_venue_rank returns Unranked or Unknown and get_venue_metrics returns
\* neither an impact factor nor an SJR.
C9_EmptyDatabaseDegrades ==
    /\ phase # "crashed"
    /\ ( phase = "ready" /\ file.kind # "ok" ) => VENUE_RANKS = <<>>
    /\ ( RankReturned /\ VENUE_RANKS = <<>> ) => call.ret \in {"Unranked", "Unknown"}
    /\ ( MetricsReturned /\ VENUE_RANKS = <<>> )
       => /\ call.ret.rank \in {"Unranked", "Unknown"}
          /\ call.ret.impact_factor = NoneMetric
          /\ call.ret.sjr = NoneMetric

C9_Witness ==
    /\ file.kind = "unreadable"
    /\ MetricsReturned
    /\ input = V_RTSS
    /\ call.ret = [rank |-> "Unranked", impact_factor |-> NoneMetric, sjr |-> NoneMetric]

\* the earliest stage, in the order exact, acronym, fuzzy, raw, that has a matching key,
\* and that stage's first matching key in database iteration order (0: no stage matches)
FirstMatchInOrder ==
    LET n       == Len(VENUE_RANKS)
        exact   == FirstIdx(n, ExactKey)
        acronym == AcronymStage(VENUE_RANKS, input)
        fuzzy   == FuzzyStage(VENUE_RANKS, input)
        raw     == RawStage(VENUE_RANKS, input)
    IN  IF exact # 0 THEN exact
        ELSE IF acronym # 0 THEN acronym
        ELSE IF fuzzy # 0 THEN fuzzy
        ELSE raw

\* C10: get_venue_rank returns Unknown exactly when the raw venue is absent, empty or
\* normalizes to the empty string; it falls through to Unranked exactly when the
\* normalized venue is not empty and no stage finds a key; otherwise it returns the tier
\* of the first matching key, in iteration order, of the earliest matching stage.
C10_RankCascade ==
    RankReturned =>
      /\ call.trace.stage \in {"absent", "empty"}
         <=> ( Falsy(input) \/ NormalizedInput = <<>> )
      /\ call.trace.stage \in {"absent", "empty"} => call.ret = "Unknown"
      /\ call.trace.stage = "none"
         <=> ( NormalizedInput # <<>> /\ FirstMatchInOrder = 0 )
      /\ call.trace.stage = "none" => call.ret = "Unranked"
      /\ ( NormalizedInput # <<>> /\ FirstMatchInOrder # 0 )
         => call.ret = TierOf(FirstMatchInOrder)

(***************************************************************************)
(* normalize_venue_name as a function: it is applied to a string, then to  *)
(* its own result.  The strings are None, the spec's example and every     *)
(* concatenation of at most MaxTokens tokens.                              *)
(***************************************************************************)
V_acm ==
    <<"A","C","M"," ","S","I","G","P","L","A","N"," ","&"," ",
      "S","y","s","t","e","m","s">>

V_acm_normalized ==
    <<"a","c","m"," ","s","i","g","p","l","a","n"," ","a","n","d"," ",
      "s","y","s","t","e","m","s">>

NormTokens == {AndWord, <<" ">>, <<"\t">>, <<"&">>, <<"A">>, <<"(">>, <<",">>, <<"-">>}

MaxTokens == 4

RECURSIVE TokenStrings(_)
TokenStrings(n) ==
    IF n = 0 THEN {<<>>}
    ELSE LET shorter == TokenStrings(n - 1) IN
         shorter \cup {s \o tok : s \in shorter, tok \in NormTokens}

NormInputs == TokenStrings(MaxTokens) \cup {None, V_acm}

InitNormalize ==
    /\ file = [kind |-> "absent", content |-> <<>>]
    /\ VENUE_RANKS = <<>>
    /\ phase = "ready"
    /\ input \in NormInputs
    /\ call = NoCall

\* normalize_venue_name(input)
CallNormalize ==
    /\ call.op = "none"
    /\ call' = [op |-> "normalize_venue_name", ret |-> normalize_venue_name(input),
                trace |-> <<>>]
    /\ UNCHANGED <<file, VENUE_RANKS, phase, input>>

\* normalize_venue_name(normalize_venue_name(input)); trace keeps the inner result
CallNormalizeAgain ==
    /\ call.op = "normalize_venue_name"
    /\ call' = [op |-> "normalize_twice", ret |-> normalize_venue_name(call.ret),
                trace |-> call.ret]
    /\ UNCHANGED <<file, VENUE_RANKS, phase, input>>

NextNormalize == CallNormalize \/ CallNormalizeAgain

SpecNormalize == InitNormalize /\ [][NextNormalize]_vars

Chars ==
    Letters \cup Digits \cup Whitespace \cup Dashes
    \cup {"&", "(", ")", ",", ";", ":", "."}

\* a Python str: a finite sequence of characters, which None is not
IsStr(s) == s # None /\ \A i \in 1..Len(s) : s[i] \in Chars

\* C8: normalize_venue_name returns a string for every input, the empty string for an
\* empty or absent input, "acm sigplan and systems" for "ACM SIGPLAN & Systems", and
\* normalize(normalize(x)) = normalize(x).
C8_NormalizeTotalIdempotent ==
    /\ call.op = "normalize_venue_name"
       => /\ IsStr(call.ret)
          /\ Falsy(input) => call.ret = <<>>
          /\ input = V_acm => call.ret = V_acm_normalized
    /\ call.op = "normalize_twice" => call.ret = call.trace

C8_Witness ==
    /\ call.op = "normalize_twice"
    /\ input = <<"A", "&", "-", "a", "n", "d">>
    /\ call.ret = <<"a", " ", "a", "n", "d", " ", "a", "n", "d">>

(***************************************************************************)
(* analyze_data.ScholarAnalyzer and app.get_analysis.  An author record is *)
(* [name, publications]; a publication is its bib: [venue, journal,        *)
(* conference, author], a member the JSON lacks being None.                *)
(***************************************************************************)
\* Python's "a or b"
Or(a, b) == IF Falsy(a) THEN b ELSE a

\* dict.get(member, default)
GetOr(member, default) == IF member = None THEN default ELSE member

UnknownAuthor == <<"U","n","k","n","o","w","n"," ","A","u","t","h","o","r">>

\* ScholarAnalyzer.__init__: self.name
AnalyzerName(data) == GetOr(data.name, UnknownAuthor)

\* re.split(r',|\sand\s', s): the pieces between the separators, empty ones included
RECURSIVE SplitAuthors(_, _, _)
SplitAuthors(s, i, cur) ==
    IF i > Len(s) THEN <<cur>>
    ELSE IF s[i] = "," THEN <<cur>> \o SplitAuthors(s, i + 1, <<>>)
    ELSE IF /\ s[i] \in Whitespace
            /\ MatchAt(s, i + 1, AndWord)
            /\ i + 4 <= Len(s)
            /\ s[i + 4] \in Whitespace
         THEN <<cur>> \o SplitAuthors(s, i + 5, <<>>)
    ELSE SplitAuthors(s, i + 1, Append(cur, s[i]))

\* [a.strip() for a in re.split(...)]
AuthorList(author_str) ==
    LET parts == SplitAuthors(author_str, 1, <<>>) IN
    [i \in 1..Len(parts) |-> Strip(parts[i])]

TargetSurname(name) ==
    LET target_parts == Split(Lower(name)) IN
    IF Len(target_parts) > 0 THEN target_parts[Len(target_parts)] ELSE <<>>

\* the for loop that finds match_idx (1-based here, 0 when no entry matches)
MatchIdx(target_surname, authors) ==
    FirstIdx(Len(authors), LAMBDA i : IsSubstring(target_surname, Lower(authors[i])))

\* a slip of the order: the index is looked at before the length of the list
PositionOf_first_before_single(authors, match_idx) ==
    IF match_idx = 0 THEN ""
    ELSE IF match_idx = 1 THEN "First"
    ELSE IF Len(authors) = 1 THEN "Single"
    ELSE IF match_idx = Len(authors) THEN "Last"
    ELSE "Middle"

PositionOf(authors, match_idx) ==
    IF match_idx = 0 THEN ""
    ELSE IF Len(authors) = 1 THEN "Single"
    ELSE IF match_idx = 1 THEN "First"
    ELSE IF match_idx = Len(authors) THEN "Last"
    ELSE "Middle"

AuthorStringPosition(target_surname, author_str) ==
    IF Falsy(author_str) THEN ""
    ELSE PositionOf(AuthorList(author_str), MatchIdx(target_surname, AuthorList(author_str)))

\* one turn of the loop of get_authorship_stats: the list it split, the index it found
\* (0: none, or the publication was skipped before the split) and the counter it
\* incremented ("": none)
AuthorStepFor(target_surname, author_str) ==
    [authors   |-> IF Falsy(author_str) THEN <<>> ELSE AuthorList(author_str),
     match_idx |-> IF Falsy(author_str) THEN 0
                   ELSE MatchIdx(target_surname, AuthorList(author_str)),
     position  |-> AuthorStringPosition(target_surname, author_str)]

AuthorSteps(name, publications) ==
    [i \in 1..Len(publications) |->
        AuthorStepFor(TargetSurname(name), GetOr(publications[i].author, <<>>))]

\* the position one publication is tallied under, "" when it is skipped
AuthorPosition(target_surname, bib) ==
    AuthorStringPosition(target_surname, GetOr(bib.author, <<>>))

Positions == {"First", "Last", "Middle", "Single"}

\* a dict of counters after the loop: how many publications were tallied under each key
Tally(keys, buckets) ==
    [k \in keys |-> Cardinality({i \in 1..Len(buckets) : buckets[i] = k})]

get_authorship_stats(name, publications) ==
    Tally(Positions,
          [i \in 1..Len(publications) |->
              AuthorPosition(TargetSurname(name), publications[i])])

RankKeys == {"A*", "A", "B", "C", "Unranked", "No Venue Found"}

\* a slip of the order: conference first, then journal, then venue
PublicationVenue_conference_first(bib) == Or(Or(bib.conference, bib.journal), bib.venue)

\* get_publication_ranks: bib.get('venue') or bib.get('journal') or bib.get('conference')
PublicationVenue(bib) == Or(Or(bib.venue, bib.journal), bib.conference)

\* a slip: a rank that is not a key of rank_counts increments nothing
Bucket_drop_unlisted(rank) == IF rank \in RankKeys THEN rank ELSE ""

\* the counter a resolved rank increments
Bucket(rank) == IF rank \in RankKeys THEN rank ELSE "Unranked"

\* a slip: the "if not venue" guard is missing and the resolver is called regardless
PubStepFor_no_guard(db, venue) ==
    [venue |-> venue, resolved |-> TRUE, bucket |-> Bucket(get_venue_rank(db, venue))]

\* one turn of the loop of get_publication_ranks for the venue it picked: whether it
\* calls get_venue_rank and get_venue_metrics, and the counter it increments
PubStepFor(db, venue) ==
    IF Falsy(venue)
    THEN [venue |-> venue, resolved |-> FALSE, bucket |-> "No Venue Found"]
    ELSE [venue |-> venue, resolved |-> TRUE, bucket |-> Bucket(get_venue_rank(db, venue))]

PubStep(db, bib) == PubStepFor(db, PublicationVenue(bib))

PubSteps(db, publications) ==
    [i \in 1..Len(publications) |-> PubStep(db, publications[i])]

\* the counter each turn of the loop incremented
BucketsOf(steps) == [i \in 1..Len(steps) |-> steps[i].bucket]

get_publication_ranks(db, publications) ==
    Tally(RankKeys, BucketsOf(PubSteps(db, publications)))

MaxSummaries == 20

\* app.get_analysis: bib.get('venue') or bib.get('journal') or bib.get('conference', '')
SummaryVenue(bib) == Or(Or(bib.venue, bib.journal), GetOr(bib.conference, <<>>))

Min(a, b) == IF a < b THEN a ELSE b

\* the analysis record built from the author record
Analysis(name, publications, db) ==
    [status             |-> 200,
     name               |-> name,
     authorship_stats   |-> get_authorship_stats(name, publications),
     publication_ranks  |-> get_publication_ranks(db, publications),
     total_publications |-> Len(publications),
     publications       |-> [i \in 1..Min(MaxSummaries, Len(publications)) |->
                                [venue   |-> SummaryVenue(publications[i]),
                                 authors |-> GetOr(publications[i].author, <<>>)]]]

\* app.get_analysis, the /api/analysis handler
get_analysis(author_file, db) ==
    CASE author_file.kind = "absent"    -> [status |-> 404]
      [] author_file.kind = "malformed" -> [status |-> 500]
      [] author_file.kind = "ok" ->
           Analysis(AnalyzerName(author_file.data), author_file.data.publications, db)

(***************************************************************************)
(* Author records the analyzer is run on.                                  *)
(***************************************************************************)
N_lee ==
    <<"B","."," ","L","e","e">>

A_surname_first ==
    <<"S","m","i","t","h",","," ","J",".",","," ","D","o","e",","," ","A",".",
      " ","a","n","d"," ","L","e","e",","," ","B",".">>

A_given_first ==
    <<"J","."," ","S","m","i","t","h",","," ","A","."," ","D","o","e"," ","a",
      "n","d"," ","B","."," ","L","e","e">>

A_leading ==
    <<"B","."," ","L","e","e"," ","a","n","d"," ","J","."," ","S","m","i","t",
      "h">>

Bib(venue, journal, conference, author) ==
    [venue |-> venue, journal |-> journal, conference |-> conference, author |-> author]

VenueBibs ==
    {Bib(v, j, c, None) :
        v \in {None, <<>>, K_rtss}, j \in {None, K_rts}, c \in {None, K_RTSS_full_dash}}

AuthorBibs == {Bib(None, None, None, a) : a \in {A_surname_first, A_given_first, A_leading, N_lee}}

Bibs == VenueBibs \cup AuthorBibs

MaxPubs == 2

RECURSIVE PubLists(_)
PubLists(n) ==
    IF n = 0 THEN {<<>>}
    ELSE LET shorter == PubLists(n - 1) IN
         shorter \cup {Append(ps, b) : ps \in shorter, b \in Bibs}

AuthorFiles ==
    {[kind |-> "ok", data |-> [name |-> nm, publications |-> ps]] :
        nm \in {N_lee, None}, ps \in PubLists(MaxPubs)}
    \cup {[kind |-> k, data |-> <<>>] : k \in {"absent", "malformed"}}

AnalyzerDb ==
    <<Entry(K_rtss, Bare("A*")), Entry(K_rts, Bare("A")),
      Entry(K_RTSS_full_dash, Structured("B", "2.5", "1.2"))>>

AnalyzerRankingFiles ==
    {[kind |-> "ok", content |-> AnalyzerDb], [kind |-> "absent", content |-> <<>>]}

InitAnalyzer ==
    /\ file \in AnalyzerRankingFiles
    /\ input \in AuthorFiles
    /\ VENUE_RANKS = <<>>
    /\ phase = "boot"
    /\ call = NoCall

\* GET /api/analysis; trace keeps the turns of the loop of get_publication_ranks
CallGetAnalysis ==
    /\ phase = "ready"
    /\ call' = [op    |-> "get_analysis",
                ret   |-> get_analysis(input, VENUE_RANKS),
                trace |-> IF input.kind = "ok"
                          THEN PubSteps(VENUE_RANKS, input.data.publications)
                          ELSE <<>>]
    /\ UNCHANGED <<file, VENUE_RANKS, phase, input>>

NextAnalyzer == LoadRankings \/ CallGetAnalysis

SpecAnalyzer == InitAnalyzer /\ [][NextAnalyzer]_vars

(***************************************************************************)
(* Claims about the analyzer, checked under SpecAnalyzer.                  *)
(***************************************************************************)
Analyzed == call.op = "get_analysis" /\ input.kind = "ok"

Pubs == input.data.publications

\* C2: with the target name "B. Lee", every publication whose author string is
\* "Smith, J., Doe, A. and Lee, B." is tallied as Last and under no other position.
C2_FinalAuthorIsLast ==
    ( /\ Analyzed
      /\ input.data.name = N_lee
      /\ \A i \in 1..Len(Pubs) : Pubs[i].author = A_surname_first )
    => call.ret.authorship_stats =
         [k \in Positions |-> IF k = "Last" THEN Len(Pubs) ELSE 0]

\* the publication carries several venue fields with different non-empty values
SeveralVenues(bib) ==
    Cardinality({f \in {bib.venue, bib.journal, bib.conference} : ~Falsy(f)}) > 1

\* C6 as stated: conference has precedence, then journal, then venue; a publication with
\* several different non-empty venue fields, conference among them, is ranked and
\* summarised by its conference value.
C6_ConferencePrecedence ==
    Analyzed =>
      \A i \in 1..Len(Pubs) :
        ( SeveralVenues(Pubs[i]) /\ ~Falsy(Pubs[i].conference) )
        => /\ call.trace[i].venue = Pubs[i].conference
           /\ call.ret.publications[i].venue = Pubs[i].conference

\* C6 amended: venue has precedence, then journal, then conference; the rank breakdown
\* resolves, and the publication summary shows, the first of the three that is not empty.
C6_VenuePrecedence ==
    Analyzed =>
      \A i \in 1..Len(Pubs) :
        LET bib    == Pubs[i]
            chosen == IF ~Falsy(bib.venue) THEN bib.venue
                      ELSE IF ~Falsy(bib.journal) THEN bib.journal
                      ELSE bib.conference
        IN  ~Falsy(chosen)
            => /\ call.trace[i].venue = chosen
               /\ call.trace[i].resolved
               /\ call.ret.publications[i].venue = chosen

C6_Witness ==
    /\ Analyzed
    /\ file.kind = "ok"
    /\ Pubs = <<Bib(K_rtss, K_rts, K_RTSS_full_dash, None)>>
    /\ call.trace[1].venue = K_rtss
    /\ call.ret.publications[1].venue = K_rtss
    /\ call.ret.publication_ranks["A*"] = 1

\* the publication has no venue field: venue, journal and conference absent or empty
NoVenue(bib) == Falsy(bib.venue) /\ Falsy(bib.journal) /\ Falsy(bib.conference)

\* C7: a publication that has no venue field is counted under "No Venue Found", never
\* under "Unranked" or another key, and the resolver is not called for it.
C7_NoVenueFound ==
    Analyzed =>
      LET lacking == {i \in 1..Len(Pubs) : NoVenue(Pubs[i])}
          counts  == call.ret.publication_ranks
      IN  /\ \A i \in lacking :
                call.trace[i].bucket = "No Venue Found" /\ ~call.trace[i].resolved
          /\ counts["No Venue Found"] >= Cardinality(lacking)
          /\ \A k \in RankKeys \ {"No Venue Found"} :
                counts[k] <= Len(Pubs) - Cardinality(lacking)

C7_Witness ==
    /\ Analyzed
    /\ file.kind = "ok"
    /\ Pubs = <<Bib(<<>>, None, None, None), Bib(K_rtss, None, None, None)>>
    /\ call.trace[1] = [venue |-> None, resolved |-> FALSE, bucket |-> "No Venue Found"]
    /\ call.ret.publication_ranks["No Venue Found"] = 1
    /\ call.ret.publication_ranks["A*"] = 1
    /\ call.ret.publication_ranks["Unranked"] = 0

(***************************************************************************)
(* get_authorship_stats on its own: the analyzer is built from an author   *)
(* record and the tally is taken.  The author strings are every            *)
(* concatenation of at most MaxAuthorTokens tokens, one per record, and    *)
(* the lists of at most MaxPubs of the author strings above.               *)
(***************************************************************************)
T_Lee == <<"L","e","e">>

T_Kim == <<"K","i","m">>

N_lee_padded == <<"L","e","e"," ">>

AuthorTokens == {T_Lee, T_Kim, <<",">>, SpacedAnd, <<" ">>, AndWord}

MaxAuthorTokens == 3

RECURSIVE AuthorStrings(_)
AuthorStrings(n) ==
    IF n = 0 THEN {<<>>}
    ELSE LET shorter == AuthorStrings(n - 1) IN
         shorter \cup {s \o tok : s \in shorter, tok \in AuthorTokens}

RECURSIVE AuthorPubLists(_)
AuthorPubLists(n) ==
    IF n = 0 THEN {<<>>}
    ELSE LET shorter == AuthorPubLists(n - 1) IN
         shorter \cup {Append(ps, b) : ps \in shorter, b \in AuthorBibs}

AuthorshipRecords ==
    [name         : {N_lee, N_lee_padded, <<>>, None},
     publications : {<<Bib(None, None, None, a)>> : a \in AuthorStrings(MaxAuthorTokens) \cup {None}}
                    \cup AuthorPubLists(MaxPubs)]

InitAuthorship ==
    /\ file = [kind |-> "absent", content |-> <<>>]
    /\ VENUE_RANKS = <<>>
    /\ phase = "ready"
    /\ input \in AuthorshipRecords
    /\ call = NoCall

\* ScholarAnalyzer(input).get_authorship_stats(); trace keeps the surname and the turns
\* of the loop
CallGetAuthorshipStats ==
    /\ call.op = "none"
    /\ call' = [op    |-> "get_authorship_stats",
                ret   |-> get_authorship_stats(AnalyzerName(input), input.publications),
                trace |-> [target_surname |-> TargetSurname(AnalyzerName(input)),
                           steps |-> AuthorSteps(AnalyzerName(input), input.publications)]]
    /\ UNCHANGED <<file, VENUE_RANKS, phase, input>>

NextAuthorship == CallGetAuthorshipStats

SpecAuthorship == InitAuthorship /\ [][NextAuthorship]_vars

\* s with every leftmost, non-overlapping whitespace-"and"-whitespace turned into a comma
RECURSIVE CommaForAnd(_, _)
CommaForAnd(s, i) ==
    IF i > Len(s) THEN <<>>
    ELSE IF /\ i + 4 <= Len(s)
            /\ s[i] \in Whitespace
            /\ SubSeq(s, i + 1, i + 3) = AndWord
            /\ s[i + 4] \in Whitespace
         THEN <<",">> \o CommaForAnd(s, i + 5)
         ELSE <<s[i]>> \o CommaForAnd(s, i + 1)

\* the field of s that starts at i and runs to the next comma or the end
FieldAt(s, i) ==
    LET stop == IF \E j \in i..Len(s) : s[j] = ","
                THEN CHOOSE j \in i..Len(s) : s[j] = "," /\ \A k \in i..(j - 1) : s[k] # ","
                ELSE Len(s) + 1
    IN  Slice(s, i, stop - 1)

\* the entries the claim describes: the trimmed pieces between the separators
ClaimedEntries(author_str) ==
    LET t      == CommaForAnd(author_str, 1)
        starts == {1} \cup {j + 1 : j \in {k \in 1..Len(t) : t[k] = ","}}
        nth(n) == CHOOSE j \in starts : Cardinality({k \in starts : k < j}) = n - 1
    IN  [n \in 1..Cardinality(starts) |-> Strip(FieldAt(t, nth(n)))]

\* the counter the claim names for a list and a 0-based match index
ClaimedPosition(entries, index) ==
    IF Len(entries) = 1 THEN "Single"
    ELSE IF index = 0 THEN "First"
    ELSE IF index = Len(entries) - 1 THEN "Last"
    ELSE "Middle"

AuthorshipTallied == call.op = "get_authorship_stats"

\* C11: for each publication the author string is split on commas and on
\* whitespace-delimited "and" and the entries are trimmed; the first entry whose
\* lower-cased text contains the target surname (the last whitespace token of the
\* lower-cased target name) is the match; a match increments exactly one counter (Single
\* for a one-entry list, else First at index 0, else Last at the last index, else Middle);
\* an empty author string or a list with no matching entry changes no counter.
C11_AuthorshipRule ==
    AuthorshipTallied =>
      LET name    == AnalyzerName(input)
          tokens  == Split(Lower(name))
          surname == call.trace.target_surname
          steps   == call.trace.steps
          pubs    == input.publications
          holds(e) == IsSubstring(surname, Lower(e))
      IN  /\ tokens # <<>> => surname = tokens[Len(tokens)]
          /\ \A i \in 1..Len(pubs) :
                LET author_str == GetOr(pubs[i].author, <<>>)
                    entries    == ClaimedEntries(author_str)
                    m          == steps[i].match_idx
                IN  IF author_str = <<>>
                    THEN steps[i].position = ""
                    ELSE /\ steps[i].authors = entries
                         /\ m = 0 <=> \A n \in 1..Len(entries) : ~holds(entries[n])
                         /\ m # 0 => /\ holds(entries[m])
                                      /\ \A n \in 1..(m - 1) : ~holds(entries[n])
                         /\ steps[i].position =
                               IF m = 0 THEN "" ELSE ClaimedPosition(entries, m - 1)
          /\ \A k \in Positions :
                call.ret[k] = Cardinality({i \in 1..Len(pubs) : steps[i].position = k})
          /\ call.ret["Single"] + call.ret["First"] + call.ret["Last"] + call.ret["Middle"]
                = Cardinality({i \in 1..Len(pubs) : steps[i].match_idx # 0})

\* a one-entry list whose entry is the whole target name is Single; a list that matches
\* nowhere is not tallied
C11_Witness ==
    /\ AuthorshipTallied
    /\ input.name = N_lee
    /\ input.publications =
         <<Bib(None, None, None, N_lee), Bib(None, None, None, A_given_first)>>
    /\ call.trace.steps[1] = [authors |-> <<N_lee>>, match_idx |-> 1, position |-> "Single"]
    /\ call.trace.steps[2].position = "Last"
    /\ call.ret = [k \in Positions |-> IF k \in {"Single", "Last"} THEN 1 ELSE 0]

(***************************************************************************)
(* analyze_data.ScholarAnalyzer._normalize_keyword and its tables          *)
(***************************************************************************)
hyphenated_prefixes ==
    {
      <<"m","u","l","t","i">>, <<"r","e","a","l">>, <<"t","i","m","e">>,
      <<"c","a","c","h","e">>, <<"c","y","b","e","r">>, <<"m","i","x","e","d">>,
      <<"n","o","n">>, <<"p","r","e">>, <<"p","o","s","t">>, <<"s","e","m","i">>,
      <<"s","u","b">>, <<"s","u","p","e","r">>, <<"u","l","t","r","a">>,
      <<"i","n","t","e","r">>, <<"i","n","t","r","a">>, <<"o","v","e","r">>,
      <<"u","n","d","e","r">>, <<"c","r","o","s","s">>, <<"s","e","l","f">>,
      <<"a","u","t","o">>, <<"p","s","e","u","d","o">>, <<"q","u","a","s","i">>,
      <<"m","i","c","r","o">>, <<"m","a","c","r","o">>, <<"m","e","t","a">>,
      <<"h","y","p","e","r">>, <<"c","o">>, <<"a","n","t","i">>, <<"p","r","o">>,
      <<"c","o","u","n","t","e","r">>, <<"d","e">>, <<"r","e">>, <<"u","n">>, <<"i","n">>,
      <<"i","m">>, <<"d","i","s">>, <<"e","n">>, <<"e","x">>, <<"o","u","t">>, <<"u","p">>,
      <<"d","o","w","n">>, <<"o","f","f">>, <<"o","n">>, <<"w","i","t","h">>,
      <<"w","i","t","h","o","u","t">>, <<"f","u","l","l">>, <<"h","a","l","f">>,
      <<"a","l","l">>, <<"a","n","y">>, <<"s","o","m","e">>, <<"e","v","e","r","y">>,
      <<"n","o">>, <<"n","e","w">>, <<"o","l","d">>, <<"h","i","g","h">>, <<"l","o","w">>,
      <<"b","i","g">>, <<"s","m","a","l","l">>, <<"l","a","r","g","e">>, <<"w","i","d","e">>,
      <<"n","a","r","r","o","w">>, <<"l","o","n","g">>, <<"s","h","o","r","t">>,
      <<"f","a","s","t">>, <<"s","l","o","w">>, <<"e","a","r","l","y">>, <<"l","a","t","e">>,
      <<"f","i","r","s","t">>, <<"l","a","s","t">>, <<"n","e","x","t">>,
      <<"p","r","e","v","i","o","u","s">>, <<"s","i","n","g","l","e">>,
      <<"d","o","u","b","l","e">>, <<"t","r","i","p","l","e">>, <<"q","u","a","d">>,
      <<"m","a","n","y">>, <<"f","e","w">>, <<"m","o","s","t">>, <<"l","e","a","s","t">>
    }

hyphenated_suffixes ==
    {
      <<"a","w","a","r","e">>, <<"b","a","s","e","d">>, <<"c","e","n","t","r","i","c">>,
      <<"d","r","i","v","e","n">>, <<"e","n","a","b","l","e","d">>, <<"f","r","e","e">>,
      <<"f","r","i","e","n","d","l","y">>, <<"o","r","i","e","n","t","e","d">>,
      <<"p","r","o","o","f">>, <<"r","e","a","d","y">>, <<"r","e","l","a","t","e","d">>,
      <<"s","e","n","s","i","t","i","v","e">>, <<"s","p","e","c","i","f","i","c">>,
      <<"s","t","y","l","e">>, <<"t","y","p","e">>, <<"w","i","s","e">>,
      <<"w","o","r","t","h","y">>, <<"l","e","s","s">>, <<"f","u","l">>, <<"l","i","k","e">>,
      <<"w","i","d","e">>, <<"s","c","a","l","e">>, <<"l","e","v","e","l">>,
      <<"g","r","a","d","e">>, <<"c","l","a","s","s">>, <<"r","a","t","e">>,
      <<"s","p","e","e","d">>, <<"t","i","m","e">>, <<"s","p","a","c","e">>,
      <<"b","o","u","n","d">>, <<"l","i","m","i","t","e","d">>,
      <<"c","o","n","t","r","o","l","l","e","d">>, <<"m","a","n","a","g","e","d">>,
      <<"o","p","t","i","m","i","z","e","d">>, <<"t","u","n","e","d">>,
      <<"a","d","a","p","t","i","v","e">>, <<"d","y","n","a","m","i","c">>,
      <<"s","t","a","t","i","c">>, <<"a","c","t","i","v","e">>,
      <<"p","a","s","s","i","v","e">>, <<"i","n","t","e","l","l","i","g","e","n","t">>,
      <<"s","m","a","r","t">>, <<"a","u","t","o","m","a","t","i","c">>,
      <<"m","a","n","u","a","l">>, <<"s","e","m","i">>, <<"q","u","a","s","i">>,
      <<"p","s","e","u","d","o">>, <<"v","i","r","t","u","a","l">>, <<"r","e","a","l">>,
      <<"t","r","u","e">>, <<"f","a","l","s","e">>, <<"p","o","s","i","t","i","v","e">>,
      <<"n","e","g","a","t","i","v","e">>, <<"n","e","u","t","r","a","l">>
    }

\* pairs <<plural, singular>>
plural_to_singular ==
    {
      <<<<"s","y","s","t","e","m","s">>, <<"s","y","s","t","e","m">>>>,
      <<<<"n","e","t","w","o","r","k","s">>, <<"n","e","t","w","o","r","k">>>>,
      <<<<"a","l","g","o","r","i","t","h","m","s">>, <<"a","l","g","o","r","i","t","h","m">>>>,
      <<<<"m","e","t","h","o","d","s">>, <<"m","e","t","h","o","d">>>>,
      <<<<"m","o","d","e","l","s">>, <<"m","o","d","e","l">>>>,
      <<<<"a","p","p","r","o","a","c","h","e","s">>, <<"a","p","p","r","o","a","c","h">>>>,
      <<<<"t","e","c","h","n","i","q","u","e","s">>, <<"t","e","c","h","n","i","q","u","e">>>>,
      <<<<"f","r","a","m","e","w","o","r","k","s">>, <<"f","r","a","m","e","w","o","r","k">>>>,
      <<<<"a","r","c","h","i","t","e","c","t","u","r","e","s">>, <<"a","r","c","h","i","t","e","c","t","u","r","e">>>>,
      <<<<"d","e","s","i","g","n","s">>, <<"d","e","s","i","g","n">>>>,
      <<<<"i","m","p","l","e","m","e","n","t","a","t","i","o","n","s">>, <<"i","m","p","l","e","m","e","n","t","a","t","i","o","n">>>>,
      <<<<"e","v","a","l","u","a","t","i","o","n","s">>, <<"e","v","a","l","u","a","t","i","o","n">>>>,
      <<<<"a","n","a","l","y","s","e","s">>, <<"a","n","a","l","y","s","i","s">>>>,
      <<<<"o","p","t","i","m","i","z","a","t","i","o","n","s">>, <<"o","p","t","i","m","i","z","a","t","i","o","n">>>>,
      <<<<"a","p","p","l","i","c","a","t","i","o","n","s">>, <<"a","p","p","l","i","c","a","t","i","o","n">>>>,
      <<<<"s","o","l","u","t","i","o","n","s">>, <<"s","o","l","u","t","i","o","n">>>>,
      <<<<"p","r","o","t","o","c","o","l","s">>, <<"p","r","o","t","o","c","o","l">>>>,
      <<<<"s","e","r","v","i","c","e","s">>, <<"s","e","r","v","i","c","e">>>>,
      <<<<"d","e","v","i","c","e","s">>, <<"d","e","v","i","c","e">>>>,
      <<<<"n","o","d","e","s">>, <<"n","o","d","e">>>>,
      <<<<"p","r","o","c","e","s","s","e","s">>, <<"p","r","o","c","e","s","s">>>>,
      <<<<"t","h","r","e","a","d","s">>, <<"t","h","r","e","a","d">>>>,
      <<<<"t","a","s","k","s">>, <<"t","a","s","k">>>>,
      <<<<"j","o","b","s">>, <<"j","o","b">>>>,
      <<<<"r","e","q","u","e","s","t","s">>, <<"r","e","q","u","e","s","t">>>>,
      <<<<"q","u","e","r","i","e","s">>, <<"q","u","e","r","y">>>>,
      <<<<"d","a","t","a","b","a","s","e","s">>, <<"d","a","t","a","b","a","s","e">>>>,
      <<<<"t","a","b","l","e","s">>, <<"t","a","b","l","e">>>>,
      <<<<"r","e","c","o","r","d","s">>, <<"r","e","c","o","r","d">>>>,
      <<<<"e","n","t","r","i","e","s">>, <<"e","n","t","r","y">>>>,
      <<<<"f","i","l","e","s">>, <<"f","i","l","e">>>>,
      <<<<"d","i","r","e","c","t","o","r","i","e","s">>, <<"d","i","r","e","c","t","o","r","y">>>>,
      <<<<"p","a","t","h","s">>, <<"p","a","t","h">>>>,
      <<<<"l","i","n","k","s">>, <<"l","i","n","k">>>>,
      <<<<"e","n","g","i","n","e","s">>, <<"e","n","g","i","n","e">>>>,
      <<<<"s","e","r","v","e","r","s">>, <<"s","e","r","v","e","r">>>>,
      <<<<"c","l","i","e","n","t","s">>, <<"c","l","i","e","n","t">>>>,
      <<<<"u","s","e","r","s">>, <<"u","s","e","r">>>>,
      <<<<"i","n","t","e","r","f","a","c","e","s">>, <<"i","n","t","e","r","f","a","c","e">>>>,
      <<<<"c","o","m","p","o","n","e","n","t","s">>, <<"c","o","m","p","o","n","e","n","t">>>>,
      <<<<"m","o","d","u","l","e","s">>, <<"m","o","d","u","l","e">>>>,
      <<<<"f","e","a","t","u","r","e","s">>, <<"f","e","a","t","u","r","e">>>>,
      <<<<"f","u","n","c","t","i","o","n","s">>, <<"f","u","n","c","t","i","o","n">>>>,
      <<<<"o","p","e","r","a","t","i","o","n","s">>, <<"o","p","e","r","a","t","i","o","n">>>>,
      <<<<"e","v","e","n","t","s">>, <<"e","v","e","n","t">>>>,
      <<<<"m","e","s","s","a","g","e","s">>, <<"m","e","s","s","a","g","e">>>>,
      <<<<"s","i","g","n","a","l","s">>, <<"s","i","g","n","a","l">>>>,
      <<<<"p","a","c","k","e","t","s">>, <<"p","a","c","k","e","t">>>>,
      <<<<"c","h","a","n","n","e","l","s">>, <<"c","h","a","n","n","e","l">>>>,
      <<<<"s","t","r","e","a","m","s">>, <<"s","t","r","e","a","m">>>>,
      <<<<"f","l","o","w","s">>, <<"f","l","o","w">>>>,
      <<<<"s","e","s","s","i","o","n","s">>, <<"s","e","s","s","i","o","n">>>>,
      <<<<"p","o","l","i","c","i","e","s">>, <<"p","o","l","i","c","y">>>>,
      <<<<"s","t","r","a","t","e","g","i","e","s">>, <<"s","t","r","a","t","e","g","y">>>>,
      <<<<"m","e","c","h","a","n","i","s","m","s">>, <<"m","e","c","h","a","n","i","s","m">>>>,
      <<<<"s","t","u","d","i","e","s">>, <<"s","t","u","d","y">>>>,
      <<<<"e","x","p","e","r","i","m","e","n","t","s">>, <<"e","x","p","e","r","i","m","e","n","t">>>>,
      <<<<"t","e","s","t","s">>, <<"t","e","s","t">>>>,
      <<<<"b","e","n","c","h","m","a","r","k","s">>, <<"b","e","n","c","h","m","a","r","k">>>>,
      <<<<"m","e","t","r","i","c","s">>, <<"m","e","t","r","i","c">>>>,
      <<<<"m","e","a","s","u","r","e","m","e","n","t","s">>, <<"m","e","a","s","u","r","e","m","e","n","t">>>>,
      <<<<"r","e","s","u","l","t","s">>, <<"r","e","s","u","l","t">>>>,
      <<<<"f","i","n","d","i","n","g","s">>, <<"f","i","n","d","i","n","g">>>>
    }

known_singulars == {pair[2] : pair \in plural_to_singular}

MinRemaining == 3

MinUnlistedRemaining == 4

\* str.endswith
EndsWith(s, suffix) == Len(suffix) <= Len(s) /\ Slice(s, Len(s) - Len(suffix) + 1, Len(s)) = suffix

\* the "if" chain of the prefix loop: the prefix is hyphenated off the word
PrefixFits(word, prefix) ==
    /\ MatchAt(word, 1, prefix)
    /\ Len(word) > Len(prefix)
    /\ Len(word) - Len(prefix) >= MinRemaining
    /\ \/ Slice(word, Len(prefix) + 1, Len(word)) \in hyphenated_suffixes
       \/ Len(word) - Len(prefix) >= MinUnlistedRemaining

\* the "if" chain of the suffix loop
SuffixFits(word, suffix) ==
    /\ EndsWith(word, suffix)
    /\ Len(word) > Len(suffix)
    /\ Len(word) - Len(suffix) >= MinRemaining
    /\ \/ Slice(word, 1, Len(word) - Len(suffix)) \in hyphenated_prefixes
       \/ Len(word) - Len(suffix) >= MinUnlistedRemaining

\* a slip of the order: sorted(..., key=len) without reverse=True
FirstTried_shortest(fitting) ==
    IF fitting = {} THEN <<>>
    ELSE CHOOSE a \in fitting : \A b \in fitting : Len(a) <= Len(b)

\* sorted(..., key=len, reverse=True) and the break: of the affixes that fit, the loop
\* stops at the longest (two of one length cannot both fit); <<>> when none fits
FirstTried(fitting) ==
    IF fitting = {} THEN <<>>
    ELSE CHOOSE a \in fitting : \A b \in fitting : Len(b) <= Len(a)

HyphenAfter(word, prefix) ==
    IF prefix = <<>> THEN word
    ELSE prefix \o <<"-">> \o Slice(word, Len(prefix) + 1, Len(word))

HyphenBefore(word, suffix) ==
    IF suffix = <<>> THEN word
    ELSE Slice(word, 1, Len(word) - Len(suffix)) \o <<"-">> \o suffix

\* normalized after the prefix loop
AfterPrefixes(word) ==
    HyphenAfter(word, FirstTried({prefix \in hyphenated_prefixes : PrefixFits(word, prefix)}))

\* normalized after the suffix loop, which runs only if '-' not in normalized
AfterSuffixes(normalized) ==
    IF IsSubstring(<<"-">>, normalized) THEN normalized
    ELSE HyphenBefore(normalized,
             FirstTried({suffix \in hyphenated_suffixes : SuffixFits(normalized, suffix)}))

\* a known singular stands for the form, anything else leaves normalized alone
KnownBase(normalized, base) == IF base \in known_singulars THEN base ELSE normalized

\* the if/elif chain on the plural forms
Singular(normalized) ==
    IF \E pair \in plural_to_singular : pair[1] = normalized
    THEN (CHOOSE pair \in plural_to_singular : pair[1] = normalized)[2]
    ELSE IF EndsWith(normalized, <<"i","e","s">>) /\ Len(normalized) > 4
    THEN KnownBase(normalized, Slice(normalized, 1, Len(normalized) - 3) \o <<"y">>)
    ELSE IF EndsWith(normalized, <<"e","s">>) /\ Len(normalized) > 3
    THEN KnownBase(normalized, Slice(normalized, 1, Len(normalized) - 2))
    ELSE IF EndsWith(normalized, <<"s">>) /\ Len(normalized) > 3
    THEN KnownBase(normalized, Slice(normalized, 1, Len(normalized) - 1))
    ELSE normalized

normalize_keyword(word) ==
    IF IsSubstring(<<"-">>, word) THEN word
    ELSE Singular(AfterSuffixes(AfterPrefixes(word)))

\* the value of normalized after each of the two loops ("" for both when the word is
\* returned at the hyphen test)
KeywordSteps(word) ==
    IF IsSubstring(<<"-">>, word)
    THEN [returned_early |-> TRUE, after_prefixes |-> <<>>, after_suffixes |-> <<>>]
    ELSE [returned_early |-> FALSE, after_prefixes |-> AfterPrefixes(word),
          after_suffixes |-> AfterSuffixes(AfterPrefixes(word))]

(***************************************************************************)
(* _normalize_keyword as a function.  The words are the keys of the plural *)
(* table, the spec's examples and every concatenation of at most MaxParts  *)
(* parts.                                                                  *)
(***************************************************************************)
W_realtime == <<"r","e","a","l","t","i","m","e">>

W_real_time == <<"r","e","a","l","-","t","i","m","e">>

W_cacheaware == <<"c","a","c","h","e","a","w","a","r","e">>

W_cache_aware == <<"c","a","c","h","e","-","a","w","a","r","e">>

W_systems == <<"s","y","s","t","e","m","s">>

W_system == <<"s","y","s","t","e","m">>

KeywordParts ==
    { <<"r","e","a","l">>, <<"t","i","m","e">>, <<"c","a","c","h","e">>, <<"a","w","a","r","e">>, <<"r","e">>, <<"t","a","s","k">>, <<"s">>, <<"e","s">>, <<"-">> }

MaxParts == 3

RECURSIVE PartStrings(_)
PartStrings(n) ==
    IF n = 0 THEN {<<>>}
    ELSE LET shorter == PartStrings(n - 1) IN
         shorter \cup {w \o part : w \in shorter, part \in KeywordParts}

Keywords ==
    PartStrings(MaxParts) \cup {pair[1] : pair \in plural_to_singular}
    \cup {W_realtime, W_cacheaware, W_systems, W_real_time}

InitKeyword ==
    /\ file = [kind |-> "absent", content |-> <<>>]
    /\ VENUE_RANKS = <<>>
    /\ phase = "ready"
    /\ input \in Keywords
    /\ call = NoCall

\* self._normalize_keyword(input)
CallNormalizeKeyword ==
    /\ call.op = "none"
    /\ call' = [op |-> "_normalize_keyword", ret |-> normalize_keyword(input),
                trace |-> KeywordSteps(input)]
    /\ UNCHANGED <<file, VENUE_RANKS, phase, input>>

NextKeyword == CallNormalizeKeyword

SpecKeyword == InitKeyword /\ [][NextKeyword]_vars

(***************************************************************************)
(* analyze_data.ScholarAnalyzer.get_research_areas                         *)
(***************************************************************************)
stop_words ==
    {
      <<"f","o","r">>, <<"a","n","d">>, <<"t","h","e">>, <<"o","f">>, <<"i","n">>, <<"a">>,
      <<"a","n">>, <<"t","o">>, <<"o","n">>, <<"w","i","t","h">>, <<"u","s","i","n","g">>,
      <<"b","a","s","e","d">>, <<"a","n","a","l","y","s","i","s">>, <<"v","i","a">>,
      <<"s","t","u","d","y">>, <<"f","r","o","m">>, <<"b","y">>,
      <<"n","e","t","w","o","r","k">>, <<"d","e","e","p">>,
      <<"l","e","a","r","n","i","n","g">>, <<"s","y","s","t","e","m">>,
      <<"s","y","s","t","e","m","s">>, <<"t","o","w","a","r","d">>,
      <<"t","o","w","a","r","d","s">>, <<"t","h","i","s">>, <<"t","h","a","t">>,
      <<"t","h","e","s","e">>, <<"t","h","o","s","e">>, <<"a","r","e">>, <<"i","s">>,
      <<"w","a","s">>, <<"w","e","r","e">>, <<"b","e">>, <<"b","e","e","n">>,
      <<"b","e","i","n","g">>, <<"h","a","v","e">>, <<"h","a","s">>, <<"h","a","d">>
    }

\* the characters of \w, on which \b depends
WordChars == Letters \cup Digits \cup {"_"}

\* the ends e of a match of [a-z]+(?:-[a-z]+)*[a-z]{2,}\b that starts at i: letters and
\* single inner hyphens, three letters at the end, no word character after them
TokenEnds(s, i) ==
    {e \in (i + 2)..Len(s) :
        /\ \A k \in i..e :
              \/ s[k] \in Lowers
              \/ /\ s[k] = "-"
                 /\ k > i
                 /\ k < e
                 /\ s[k - 1] \in Lowers
                 /\ s[k + 1] \in Lowers
        /\ \A k \in (e - 2)..e : s[k] \in Lowers
        /\ e = Len(s) \/ s[e + 1] \notin WordChars}

Greatest(S) == CHOOSE e \in S : \A f \in S : f <= e

\* where the match that starts at i ends, 0 when none starts there: \b before s[i],
\* and the greedy quantifiers reach the furthest end
TokenEnd(s, i) ==
    IF /\ s[i] \in Lowers
       /\ i = 1 \/ s[i - 1] \notin WordChars
       /\ TokenEnds(s, i) # {}
    THEN Greatest(TokenEnds(s, i))
    ELSE 0

\* re.findall from index i on: the matches left to right, each search resuming where
\* the match before it ended
RECURSIVE FindAllFrom(_, _)
FindAllFrom(s, i) ==
    IF i > Len(s) THEN <<>>
    ELSE IF TokenEnd(s, i) = 0 THEN FindAllFrom(s, i + 1)
    ELSE <<Slice(s, i, TokenEnd(s, i))>> \o FindAllFrom(s, TokenEnd(s, i) + 1)

FindAll(title) == FindAllFrom(title, 1)

\* the inner loop: the tokens of one title that are not stop words, normalized
NormalizedTokens(tokens) ==
    LET kept == SelectSeq(tokens, LAMBDA token : token \notin stop_words) IN
    [i \in 1..Len(kept) |-> normalize_keyword(kept[i])]

\* the list "words" after the first i publications
RECURSIVE WordsOf(_, _)
WordsOf(publications, i) ==
    IF i = 0 THEN <<>>
    ELSE WordsOf(publications, i - 1)
         \o NormalizedTokens(FindAll(Lower(GetOr(publications[i].title, <<>>))))

\* Counter(words)[w]
Count(words, w) == Cardinality({i \in 1..Len(words) : words[i] = w})

\* the position of w among the keys of Counter(words): a dict keeps insertion order
FirstSeen(words, w) == CHOOSE i \in 1..Len(words) : words[i] = w /\ \A j \in 1..(i - 1) : words[j] # w

\* a slip: of two keys with one count the later one comes first
Before_later_first(words, a, b) ==
    \/ Count(words, a) > Count(words, b)
    \/ Count(words, a) = Count(words, b) /\ FirstSeen(words, a) > FirstSeen(words, b)

\* a sorts before b in sorted(items, key=count, reverse=True), which is stable
Before(words, a, b) ==
    \/ Count(words, a) > Count(words, b)
    \/ Count(words, a) = Count(words, b) /\ FirstSeen(words, a) < FirstSeen(words, b)

\* the key at place r of the sorted items
Ranked(words, r) ==
    CHOOSE w \in {words[i] : i \in 1..Len(words)} :
        Cardinality({v \in {words[i] : i \in 1..Len(words)} : Before(words, v, w)}) = r - 1

Max(a, b) == IF a > b THEN a ELSE b

\* Counter(words).most_common(n): heapq.nlargest(n, items, key=count), which is
\* sorted(items, key=count, reverse=True)[:n]
most_common(words, n) ==
    [r \in 1..Min(Max(n, 0), Cardinality({words[i] : i \in 1..Len(words)})) |->
        <<Ranked(words, r), Count(words, Ranked(words, r))>>]

get_research_areas(publications, top_n) ==
    most_common(WordsOf(publications, Len(publications)), top_n)

(***************************************************************************)
(* Publication titles get_research_areas is run on: the lists of titles    *)
(* that hold at most MaxWords words in all.                                *)
(***************************************************************************)
W_task == <<"t","a","s","k">>

W_tasks == <<"t","a","s","k","s">>

W_networks == <<"n","e","t","w","o","r","k","s">>

W_network == <<"n","e","t","w","o","r","k">>

TitleBib(title) == [title |-> title]

TitleWords == {W_task, W_tasks, W_real_time, W_networks, W_systems}

MaxWords == 3

RECURSIVE TitleLists(_)
TitleLists(n) ==
    IF n = 0 THEN {<<>>}
    ELSE LET shorter == TitleLists(n - 1) IN
         shorter
         \cup {Append(l, TitleBib(Upper(w))) : l \in shorter, w \in TitleWords}
         \cup {[l EXCEPT ![Len(l)] = TitleBib(@.title \o <<" ">> \o w)] :
                  l \in shorter \ {<<>>}, w \in TitleWords}

TopNs == {0, 1, 2, 10}

AreaInputs ==
    [publications : TitleLists(MaxWords) \cup {<<TitleBib(None), TitleBib(W_tasks)>>},
     top_n        : TopNs]

InitAreas ==
    /\ file = [kind |-> "absent", content |-> <<>>]
    /\ VENUE_RANKS = <<>>
    /\ phase = "ready"
    /\ input \in AreaInputs
    /\ call = NoCall

\* analyzer.get_research_areas(top_n); trace keeps the list "words"
CallGetResearchAreas ==
    /\ call.op = "none"
    /\ call' = [op    |-> "get_research_areas",
                ret   |-> get_research_areas(input.publications, input.top_n),
                trace |-> [words |-> WordsOf(input.publications, Len(input.publications)),
                           first |-> <<>>]]
    /\ UNCHANGED <<file, VENUE_RANKS, phase, input>>

\* the same call once more on the same analyzer; trace keeps what the first call returned
CallGetResearchAreasAgain ==
    /\ call.op = "get_research_areas"
    /\ call' = [op    |-> "get_research_areas_again",
                ret   |-> get_research_areas(input.publications, input.top_n),
                trace |-> [words |-> call.trace.words, first |-> call.ret]]
    /\ UNCHANGED <<file, VENUE_RANKS, phase, input>>

NextAreas == CallGetResearchAreas \/ CallGetResearchAreasAgain

SpecAreas == InitAreas /\ [][NextAreas]_vars

(***************************************************************************)
(* Claims about get_research_areas, checked under SpecAreas.               *)
(***************************************************************************)
AreasReturned == call.op \in {"get_research_areas", "get_research_areas_again"}

\* for each title, its tokens in the order they stand in it, each normalized, and None in
\* the place of a stop word
Surviving(tokens) ==
    [j \in 1..Len(tokens) |->
        IF tokens[j] \in stop_words THEN None ELSE normalize_keyword(tokens[j])]

TitleKeywords(publications) ==
    [i \in 1..Len(publications) |->
        Surviving(FindAll(Lower(GetOr(publications[i].title, <<>>))))]

\* the places <<title, token>> where keyword w occurs
Occurrences(titles, w) ==
    {pl \in (1..Len(titles)) \X (1..MaxWords + 1) :
        pl[2] <= Len(titles[pl[1]]) /\ titles[pl[1]][pl[2]] = w}

\* place a comes before place b in the title sequence
Earlier(a, b) == a[1] < b[1] \/ (a[1] = b[1] /\ a[2] < b[2])

\* w occurs before v does: w's first occurrence comes before every occurrence of v
SeenFirst(titles, w, v) ==
    \E a \in Occurrences(titles, w) : \A b \in Occurrences(titles, v) : Earlier(a, b)

\* ret is what the claim says of the keywords that stand in the titles
TopAreas(titles, top_n, ret) ==
    LET returned == {ret[r][1] : r \in 1..Len(ret)}
        all      == {titles[i][j] : <<i, j>> \in
                        {pl \in (1..Len(titles)) \X (1..MaxWords + 1) :
                            pl[2] <= Len(titles[pl[1]])}} \ {None}
    IN  /\ Len(ret) <= top_n
        /\ Len(ret) = Min(top_n, Cardinality(all))
        /\ Cardinality(returned) = Len(ret)
        /\ \A r \in 1..Len(ret) :
              /\ ret[r][2] = Cardinality(Occurrences(titles, ret[r][1]))
              /\ ret[r][2] > 0
        /\ \A r \in 1..(Len(ret) - 1) :
              \/ ret[r][2] > ret[r + 1][2]
              \/ /\ ret[r][2] = ret[r + 1][2]
                 /\ SeenFirst(titles, ret[r][1], ret[r + 1][1])
        /\ \A w \in all \ returned : \A r \in 1..Len(ret) :
              Cardinality(Occurrences(titles, w)) <= ret[r][2]

\* C12: get_research_areas(top_n) returns at most top_n (keyword, count) pairs in
\* descending count order; a pair's count is the number of occurrences of the normalized
\* keyword over all titles; every omitted keyword has a count no greater than every
\* returned one; keywords of equal count stand in the order of their first occurrence in
\* the title sequence; a repeated call with the same input returns the same result.
C12_TopAreas ==
    AreasReturned =>
      /\ TopAreas(TitleKeywords(input.publications), input.top_n, call.ret)
      /\ call.op = "get_research_areas_again" => call.ret = call.trace.first

\* "REAL-TIME task" and "TASKS": the later keyword has the greater count and comes first
C12_Witness ==
    /\ call.op = "get_research_areas_again"
    /\ input.top_n = 2
    /\ input.publications =
         <<TitleBib(Upper(W_real_time) \o <<" ">> \o W_task), TitleBib(Upper(W_tasks))>>
    /\ call.ret = << <<W_task, 2>>, <<W_real_time, 1>> >>

(***************************************************************************)
(* Claims about _normalize_keyword, checked under SpecKeyword.             *)
(***************************************************************************)
KeywordNormalized == call.op = "_normalize_keyword"

HasHyphen(word) == \E i \in 1..Len(word) : word[i] = "-"

\* after is before with a hyphen put after the longest prefix that fits, and is before
\* itself when no prefix fits
LongestPrefixHyphenated(before, after) ==
    IF \E prefix \in hyphenated_prefixes : PrefixFits(before, prefix)
    THEN \E prefix \in hyphenated_prefixes :
            /\ PrefixFits(before, prefix)
            /\ \A other \in hyphenated_prefixes :
                  PrefixFits(before, other) => Len(other) <= Len(prefix)
            /\ after = prefix \o <<"-">> \o SubSeq(before, Len(prefix) + 1, Len(before))
    ELSE after = before

LongestSuffixHyphenated(before, after) ==
    IF \E suffix \in hyphenated_suffixes : SuffixFits(before, suffix)
    THEN \E suffix \in hyphenated_suffixes :
            /\ SuffixFits(before, suffix)
            /\ \A other \in hyphenated_suffixes :
                  SuffixFits(before, other) => Len(other) <= Len(suffix)
            /\ after = SubSeq(before, 1, Len(before) - Len(suffix)) \o <<"-">> \o suffix
    ELSE after = before

\* after is the singular the plural rules give for before, or before itself
Singularized(before, after) ==
    /\ before \in {pair[1] : pair \in plural_to_singular}
       => <<before, after>> \in plural_to_singular
    /\ after # before
       => /\ after \in known_singulars
          /\ \/ <<before, after>> \in plural_to_singular
             \/ before = after \o <<"s">>
             \/ before = after \o <<"e","s">>
             \/ /\ after[Len(after)] = "y"
                /\ before = SubSeq(after, 1, Len(after) - 1) \o <<"i","e","s">>

\* C13: keyword normalization applies its rules in the order already-hyphenated,
\* prefix hyphenation (longest prefix first), suffix hyphenation (only if no prefix
\* hyphen was inserted), plural to singular; "realtime" gives "real-time", "systems"
\* gives "system", "cacheaware" gives "cache-aware"; a token that already holds a hyphen
\* is returned unchanged.
C13_KeywordRuleOrder ==
    KeywordNormalized =>
      /\ input = W_realtime => call.ret = W_real_time
      /\ input = W_systems => call.ret = W_system
      /\ input = W_cacheaware => call.ret = W_cache_aware
      /\ HasHyphen(input) => call.trace.returned_early /\ call.ret = input
      /\ ~HasHyphen(input)
         => /\ ~call.trace.returned_early
            /\ LongestPrefixHyphenated(input, call.trace.after_prefixes)
            /\ IF call.trace.after_prefixes # input
               THEN call.trace.after_suffixes = call.trace.after_prefixes
               ELSE LongestSuffixHyphenated(input, call.trace.after_suffixes)
            /\ Singularized(call.trace.after_suffixes, call.ret)

C13_Witness ==
    /\ KeywordNormalized
    /\ input = W_cacheaware
    /\ call.trace.after_prefixes = W_cache_aware
    /\ call.trace.after_suffixes = W_cache_aware
    /\ call.ret = W_cache_aware

(***************************************************************************)
(* analyze_data.ScholarAnalyzer.get_citation_metrics.  The author record   *)
(* comes from json.load: cites_per_year is a dict whose keys are the years *)
(* as strings, kept in the order of the file; it is a sequence of items    *)
(* with distinct keys here.  present is the set of members the record has. *)
(***************************************************************************)
DigitSeq == <<"0","1","2","3","4","5","6","7","8","9">>

DigitValue(c) == (CHOOSE i \in 1..Len(DigitSeq) : DigitSeq[i] = c) - 1

\* ord(c) of a digit
CodePoint(c) == 48 + DigitValue(c)

\* Python's a < b on str: by code point, a proper prefix first
RECURSIVE StrLess(_, _)
StrLess(a, b) ==
    IF b = <<>> THEN FALSE
    ELSE IF a = <<>> THEN TRUE
    ELSE IF a[1] = b[1] THEN StrLess(Tail(a), Tail(b))
    ELSE CodePoint(a[1]) < CodePoint(b[1])

\* Python's x < y on the tuples (key, value)
ItemLess(x, y) == StrLess(x[1], y[1]) \/ (x[1] = y[1] /\ x[2] < y[2])

\* dict.items(): the (key, value) tuples in insertion order
Items(d) == [i \in 1..Len(d) |-> <<d[i].key, d[i].value>>]

\* a slip: the items are returned as the dict holds them
sorted_insertion_order(items) == items

\* sorted(items)
sorted(items) ==
    [r \in 1..Len(items) |->
        items[CHOOSE i \in 1..Len(items) :
                 Cardinality({j \in 1..Len(items) : ItemLess(items[j], items[i])}) = r - 1]]

get_citation_metrics(data) ==
    [total_citations |-> IF "citedby" \in data.present THEN data.citedby ELSE 0,
     trends          |-> sorted(Items(IF "cites_per_year" \in data.present
                                      THEN data.cites_per_year ELSE <<>>))]

Years == {<<"1","9","9","9">>, <<"2","0","0","0">>, <<"2","0","0","9">>, <<"2","0","1","0">>}

YearCounts == {0, 5}

MaxYears == 3

\* the dicts of at most n years, in every insertion order
RECURSIVE CitesPerYear(_)
CitesPerYear(n) ==
    IF n = 0 THEN {<<>>}
    ELSE LET fewer == CitesPerYear(n - 1) IN
         fewer \cup
         {Append(d, [key |-> y, value |-> c]) : <<d, y, c>> \in
             {t \in fewer \X Years \X YearCounts :
                 \A i \in 1..Len(t[1]) : t[1][i].key # t[2]}}

CitationRecords ==
    [present        : {{"citedby", "cites_per_year"}},
     citedby        : {0, 42},
     cites_per_year : CitesPerYear(MaxYears)]
    \cup [present : {{"cites_per_year"}}, citedby : {0}, cites_per_year : CitesPerYear(MaxYears)]
    \cup [present : {{"citedby"}, {}}, citedby : {42}, cites_per_year : {<<>>}]

InitCitations ==
    /\ file = [kind |-> "absent", content |-> <<>>]
    /\ VENUE_RANKS = <<>>
    /\ phase = "ready"
    /\ input \in CitationRecords
    /\ call = NoCall

\* ScholarAnalyzer(input).get_citation_metrics()
CallGetCitationMetrics ==
    /\ call.op = "none"
    /\ call' = [op |-> "get_citation_metrics", ret |-> get_citation_metrics(input),
                trace |-> <<>>]
    /\ UNCHANGED <<file, VENUE_RANKS, phase, input>>

NextCitations == CallGetCitationMetrics

SpecCitations == InitCitations /\ [][NextCitations]_vars

\* the year a key of cites_per_year stands for
RECURSIVE YearOf(_)
YearOf(key) ==
    IF key = <<>> THEN 0
    ELSE 10 * YearOf(SubSeq(key, 1, Len(key) - 1)) + DigitValue(key[Len(key)])

\* C14: get_citation_metrics returns the total citation count unchanged and a trend
\* that holds exactly the (year, count) pairs of cites_per_year, each once, in ascending
\* order of the year, whatever the insertion order of the mapping; a missing
\* cites_per_year gives an empty trend and a missing total gives 0.
C14_CitationMetrics ==
    call.op = "get_citation_metrics" =>
      LET trends == call.ret.trends
          cites  == input.cites_per_year
      IN  /\ "citedby" \in input.present => call.ret.total_citations = input.citedby
          /\ "citedby" \notin input.present => call.ret.total_citations = 0
          /\ "cites_per_year" \notin input.present => trends = <<>>
          /\ "cites_per_year" \in input.present
             => /\ Len(trends) = Len(cites)
                /\ {trends[r] : r \in 1..Len(trends)}
                     = {<<cites[i].key, cites[i].value>> : i \in 1..Len(cites)}
                /\ \A r \in 1..(Len(trends) - 1) :
                      YearOf(trends[r][1]) < YearOf(trends[r + 1][1])

C14_Witness ==
    /\ call.op = "get_citation_metrics"
    /\ input.present = {"citedby", "cites_per_year"}
    /\ input.citedby = 42
    /\ input.cites_per_year =
         <<[key |-> <<"2","0","1","0">>, value |-> 5], [key |-> <<"1","9","9","9">>, value |-> 0],
           [key |-> <<"2","0","0","9">>, value |-> 5]>>
    /\ call.ret = [total_citations |-> 42,
                   trends |-> << <<<<"1","9","9","9">>, 0>>, <<<<"2","0","0","9">>, 5>>, <<<<"2","0","1","0">>, 5>> >>]

(***************************************************************************)
(* The resolver on databases that hold full names and acronyms; the trace  *)
(* of get_venue_rank keeps the keys the acronym stage compared.            *)
(***************************************************************************)
K_RTSS_full ==
    <<"R","e","a","l"," ","T","i","m","e"," ","S","y","s","t","e","m","s"," ",
      "S","y","m","p","o","s","i","u","m">>

K_ieee_tc == <<"I","E","E","E"," ","T","C">>

K_symposium == <<"S","y","m","p","o","s","i","u","m">>

V_IT == <<"I","T">>

AcronymKeys == {K_RTSS_full, K_ieee_tc, K_symposium, K_rtss}

AcronymValues == {Bare("A*"), Structured("B", "2.5", "1.2")}

RECURSIVE AcronymDatabases(_)
AcronymDatabases(n) ==
    IF n = 0 THEN {<<>>}
    ELSE LET smaller == AcronymDatabases(n - 1) IN
         smaller \cup
         {Append(db, e) : <<db, e>> \in
             {pr \in smaller \X [key : AcronymKeys, value : AcronymValues] :
                 /\ Len(pr[1]) = n - 1
                 /\ \A i \in 1..Len(pr[1]) : pr[1][i].key # pr[2].key}}

InitAcronym ==
    /\ file \in {[kind |-> "ok", content |-> db] : db \in AcronymDatabases(MaxDb)}
    /\ input \in {V_RTSS, V_IT, V_RTS}
    /\ VENUE_RANKS = <<>>
    /\ phase = "boot"
    /\ call = NoCall

\* get_venue_rank(input); trace keeps the path and the keys the acronym loop compared
CallGetVenueRankCompared ==
    /\ phase = "ready"
    /\ call' = [op    |-> "get_venue_rank",
                ret   |-> get_venue_rank(VENUE_RANKS, input),
                trace |-> [path     |-> Resolve(VENUE_RANKS, input),
                           compared |-> AcronymCompared(VENUE_RANKS, input)]]
    /\ UNCHANGED <<file, VENUE_RANKS, phase, input>>

NextAcronym == LoadRankings \/ CallGetVenueRankCompared \/ CallGetVenueMetrics

SpecAcronym == InitAcronym /\ [][NextAcronym]_vars

\* C15: the metrics get_venue_metrics returns come from the entry that determined the
\* tier: whenever the venue resolves, through any stage, to an entry that is an object,
\* get_venue_metrics returns that entry's impact_factor and sjr.
C15_MetricsFromRankEntry ==
    ( /\ MetricsReturned
      /\ call.trace.path.idx # 0
      /\ IsDict(VENUE_RANKS[call.trace.path.idx].value) )
    => /\ call.trace.src = call.trace.path.idx
       /\ call.ret.impact_factor = DictGet(VENUE_RANKS[call.trace.path.idx].value.impact_factor)
       /\ call.ret.sjr = DictGet(VENUE_RANKS[call.trace.path.idx].value.sjr)

RankCompared == call.op = "get_venue_rank"

StrippedLen(key) == Len(SelectSeq(key, LAMBDA c : c \in Letters \cup Digits))

HasSpace(key) == \E i \in 1..Len(key) : key[i] = " "

\* the acronym stage is reached with a candidate acronym: no exact match, and the raw
\* venue has 2 to 6 alphanumeric characters and no space
AcronymStageRuns ==
    /\ call.trace.path.stage \notin {"absent", "empty", "direct", "exact"}
    /\ StrippedLen(input) >= 2
    /\ StrippedLen(input) <= 6
    /\ ~HasSpace(input)

\* the keys the acronym loop reaches: all of them, or those up to the one it returns
Reached ==
    IF call.trace.path.stage = "acronym" THEN 1..call.trace.path.idx
    ELSE 1..Len(VENUE_RANKS)

\* C16 as stated: in the acronym stage a key is skipped, never compared with the
\* candidate, whenever its stripped length is at most 6 or it holds no space; only keys
\* longer than 6 stripped characters that hold a space are compared.
C16_SkipsShortOrUnspaced ==
    RankCompared =>
      \A i \in call.trace.compared :
        StrippedLen(VENUE_RANKS[i].key) > 6 /\ HasSpace(VENUE_RANKS[i].key)

\* C16 amended: a key is skipped exactly when its stripped length is at most 6 and it
\* holds no space; every key the loop reaches that is longer than 6 stripped characters
\* or holds a space is compared with the candidate.
C16_SkipsShortUnspaced ==
    RankCompared =>
      /\ ~AcronymStageRuns => call.trace.compared = {}
      /\ AcronymStageRuns
         => call.trace.compared =
              {i \in Reached : \/ StrippedLen(VENUE_RANKS[i].key) > 6
                               \/ HasSpace(VENUE_RANKS[i].key)}
      /\ call.trace.path.stage = "acronym"
         => call.trace.path.idx \in call.trace.compared

\* "rtss" is skipped, "IEEE TC" (six characters and a space) is compared and matches IT
C16_Witness ==
    /\ RankCompared
    /\ VENUE_RANKS = <<Entry(K_rtss, Bare("A*")),
                       Entry(K_ieee_tc, Structured("B", "2.5", "1.2"))>>
    /\ input = V_IT
    /\ call.trace.compared = {2}
    /\ call.trace.path = Hit("acronym", 2)
    /\ call.ret = "B"

(***************************************************************************)
(* get_publication_ranks on its own, over a database that holds a label    *)
(* that is no tier and an object without a rank, and venues that resolve   *)
(* to Unknown.                                                             *)
(***************************************************************************)
\* what get_venue_rank returned for the publication ("" when it was not called) and
\* the counter the publication incremented
LabelStep(db, bib) ==
    [label  |-> IF Falsy(PublicationVenue(bib)) THEN ""
                ELSE get_venue_rank(db, PublicationVenue(bib)),
     bucket |-> PubStep(db, bib).bucket]

LabelSteps(db, publications) ==
    [i \in 1..Len(publications) |-> LabelStep(db, publications[i])]

LabelDb ==
    <<Entry(K_rtss, Bare("Q1")), Entry(K_rts, Bare("C")),
      Entry(K_RTSS_full_dash, Structured(Absent, "2.5", "1.2"))>>

LabelBibs ==
    {Bib(v, None, None, None) : v \in {None, K_dash, K_rtss, V_RTS, K_RTSS_full_dash}}

RECURSIVE LabelPubLists(_)
LabelPubLists(n) ==
    IF n = 0 THEN {<<>>}
    ELSE LET shorter == LabelPubLists(n - 1) IN
         shorter \cup {Append(ps, b) : ps \in shorter, b \in LabelBibs}

InitRanks ==
    /\ file \in {[kind |-> "ok", content |-> LabelDb], [kind |-> "absent", content |-> <<>>]}
    /\ input \in [name : {N_lee}, publications : LabelPubLists(MaxPubs)]
    /\ VENUE_RANKS = <<>>
    /\ phase = "boot"
    /\ call = NoCall

\* ScholarAnalyzer(input).get_publication_ranks(); trace keeps the turns of the loop
CallGetPublicationRanks ==
    /\ phase = "ready"
    /\ call' = [op    |-> "get_publication_ranks",
                ret   |-> get_publication_ranks(VENUE_RANKS, input.publications),
                trace |-> LabelSteps(VENUE_RANKS, input.publications)]
    /\ UNCHANGED <<file, VENUE_RANKS, phase, input>>

NextRanks == LoadRankings \/ CallGetPublicationRanks

SpecRanks == InitRanks /\ [][NextRanks]_vars

\* C17: after get_publication_ranks the six counts (A*, A, B, C, Unranked, No Venue
\* Found) sum to the number of publications: each publication increments exactly one
\* counter, and a resolved label outside the six keys ("Unknown", or a database label
\* that is no tier) increments Unranked.
C17_CountsSumToPublications ==
    call.op = "get_publication_ranks" =>
      LET counts == call.ret
          pubs   == input.publications
      IN  /\ DOMAIN counts = {"A*", "A", "B", "C", "Unranked", "No Venue Found"}
          /\ counts["A*"] + counts["A"] + counts["B"] + counts["C"]
               + counts["Unranked"] + counts["No Venue Found"] = Len(pubs)
          /\ \A k \in DOMAIN counts :
                counts[k] = Cardinality({i \in 1..Len(pubs) : call.trace[i].bucket = k})
          /\ \A i \in 1..Len(pubs) :
                /\ call.trace[i].bucket \in DOMAIN counts
                /\ call.trace[i].label = "" <=> NoVenue(pubs[i])
                /\ call.trace[i].label = "" => call.trace[i].bucket = "No Venue Found"
                /\ ( call.trace[i].label # "" /\ call.trace[i].label \in DOMAIN counts )
                   => call.trace[i].bucket = call.trace[i].label
                /\ ( call.trace[i].label # "" /\ call.trace[i].label \notin DOMAIN counts )
                   => call.trace[i].bucket = "Unranked"

\* "-" resolves to Unknown and "rtss" to the label Q1: both are counted as Unranked
C17_Witness ==
    /\ call.op = "get_publication_ranks"
    /\ file.kind = "ok"
    /\ input.publications = <<Bib(K_dash, None, None, None), Bib(K_rtss, None, None, None)>>
    /\ call.trace = <<[label |-> "Unknown", bucket |-> "Unranked"],
                      [label |-> "Q1", bucket |-> "Unranked"]>>
    /\ call.ret["Unranked"] = 2

\* C18: no keyword get_research_areas returns is a stop word: for every sequence of
\* titles, the keyword of each returned pair is outside the stop-word set (never
\* "network", "system" or "study").
C18_NoStopWordReturned ==
    AreasReturned =>
      \A r \in 1..Len(call.ret) : call.ret[r][1] \notin stop_words

\* C19: for every key p of the plural-to-singular table, _normalize_keyword(p) returns
\* the table's singular for p ("results" gives "result", "protocols" gives "protocol",
\* "interfaces" gives "interface").
C19_PluralKeysSingularized ==
    KeywordNormalized =>
      \A pair \in plural_to_singular : input = pair[1] => call.ret = pair[2]

====
